---- MODULE Spec2Model ----
(***************************************************************************)
(* Canonical package references: the jsonb rewrite functions of            *)
(* apply_migration_010_to_prod.sql, modelled with PostgreSQL's semantics   *)
(* (three-valued logic, strict functions, -> / ->> / ? / - on jsonb).      *)
(*                                                                         *)
(* Texts are sequences of one-character strings, so that LIKE,             *)
(* regexp_replace and || are computed and not assumed.                     *)
(***************************************************************************)
EXTENDS Integers, Sequences, FiniteSets, TLC

VARIABLES
    input,  \* the array element as it was before the migration
    pkg,    \* the loop variable pkg of convert_packages_array
    prev,   \* pkg as it was before the last statement of the loop body
    pc,     \* the next statement of the loop body, or "done"
    pass,   \* which run of the migration this is
    first   \* the element the first run stored (meaningful once pass > 1)

\* convert_packages_array called on a whole array
VARIABLES
    packages,  \* the argument: SQL NULL or a jsonb array
    result,    \* the value returned
    apc        \* "call" before the call, "returned" after it

\* the migration scripts run against the database
VARIABLES
    servers,            \* the servers table: record id -> value (jsonb)
    schema_migrations,  \* the versions recorded in schema_migrations
    functions,          \* whether the helper functions are defined
    tx,                 \* the open transaction: its snapshot and state
    mpc,                \* the next statement of the script
    mode,               \* "live" or "dry"
    runs,               \* how many scripts have been run to their end
    remaining_count,    \* the count the last summary reported
    history             \* the database before and after each finished run

\* one call of ValidateOCI
VARIABLES
    opkg,         \* the model.Package argument
    server_name,  \* the serverName argument
    vpc,          \* the next step of the function, or "returned"
    verr,         \* the error returned ("nil" for none)
    net_calls,    \* the registry requests made so far
    img           \* the image remote.Image returned

\* the transport URL pattern applied to one remote
VARIABLES
    remote,    \* the transport: its type and url
    ppc,       \* "validate" before the schema is applied, "validated" after
    accepted   \* whether the schema accepted the remote

\* one call of DatabaseConfig.Validate
VARIABLES
    dc,    \* the DatabaseConfig
    dpc,   \* "call" before the call, "returned" after it
    derr   \* the error returned ("nil" for none)

\* one run of "mcp-publisher login"
VARIABLES
    largs,       \* the command line: method and flags
    lpc,         \* the next step of LoginCommand / performLogin
    lerr,        \* the error returned ("nil" for none)
    calls,       \* the calls made on the auth provider, in order
    token,       \* the token GetToken returned
    token_file   \* the content of ~/.mcp_publisher_token

\* one request through CORSMiddleware
VARIABLES
    cfg,          \* CORSEnabled and CORSAllowedOrigin
    req,          \* the request's method
    cpc,          \* the next step of the handler
    headers,      \* the response headers
    code,         \* the response status code written (0 for none)
    next_calls    \* how often next.ServeHTTP has been called

pipeVars == <<input, pkg, prev, pc, pass, first>>

arrayVars == <<packages, result, apc>>

migVars == <<servers, schema_migrations, functions, tx, mpc, mode, runs,
             remaining_count, history>>

ociVars == <<opkg, server_name, vpc, verr, net_calls, img>>

patVars == <<remote, ppc, accepted>>

dbVars == <<dc, dpc, derr>>

loginVars == <<largs, lpc, lerr, calls, token, token_file>>

corsVars == <<cfg, req, cpc, headers, code, next_calls>>

\* the variables of the components around the canonicalization engine
outerVars == <<patVars, dbVars, loginVars, corsVars>>

vars == <<pipeVars, arrayVars, migVars, ociVars, outerVars>>

\* The value of the variables a specification does not use.
PipeIdle ==
    /\ input = "idle" /\ pkg = "idle" /\ prev = "idle"
    /\ pc = "idle" /\ pass = 0 /\ first = "idle"

ArrayIdle == packages = "idle" /\ result = "idle" /\ apc = "idle"

MigIdle ==
    /\ servers = "idle" /\ schema_migrations = {} /\ functions = FALSE
    /\ tx = "idle" /\ mpc = "idle" /\ mode = "idle" /\ runs = 0
    /\ remaining_count = 0 /\ history = <<>>

OciIdle ==
    /\ opkg = "idle" /\ server_name = "idle" /\ vpc = "idle"
    /\ verr = "idle" /\ net_calls = 0 /\ img = "idle"

PatIdle == remote = "idle" /\ ppc = "idle" /\ accepted = FALSE

DbIdle == dc = "idle" /\ dpc = "idle" /\ derr = "idle"

LoginIdle ==
    /\ largs = "idle" /\ lpc = "idle" /\ lerr = "idle"
    /\ calls = <<>> /\ token = "idle" /\ token_file = "idle"

CorsIdle ==
    /\ cfg = "idle" /\ req = "idle" /\ cpc = "idle"
    /\ headers = <<>> /\ code = 0 /\ next_calls = 0

OuterIdle == PatIdle /\ DbIdle /\ LoginIdle /\ CorsIdle

\* Number of times convert_packages_array is run over the same element
\* (the migration is advertised as safe to run multiple times).
MaxPass == 2

-----------------------------------------------------------------------------
(* SQL text values: NULL or a string.                                      *)

NullText == [k |-> "null", s |-> <<>>]

Text(s) == [k |-> "str", s |-> s]

(* JSON values held under a key of a package object.                       *)

Absent == [k |-> "absent", s |-> <<>>]

JNull == [k |-> "jnull", s |-> <<>>]

JStr(s) == [k |-> "str", s |-> s]

JObj(s) == [k |-> "obj", s |-> s]

(* SQL booleans are "T", "F" or "N" (NULL). A plpgsql IF takes its branch  *)
(* only when the condition is TRUE.                                        *)

IsTrue(b) == b = "T"

SqlAnd(a, b) ==
    IF a = "F" \/ b = "F" THEN "F"
    ELSE IF a = "N" \/ b = "N" THEN "N"
    ELSE "T"

SqlOr(a, b) ==
    IF a = "T" \/ b = "T" THEN "T"
    ELSE IF a = "N" \/ b = "N" THEN "N"
    ELSE "F"

SqlBool(b) == IF b THEN "T" ELSE "F"

\* text != text
SqlNe(a, b) ==
    IF a.k = "null" \/ b.k = "null" THEN "N" ELSE SqlBool(a.s # b.s)

\* text IS NULL / IS NOT NULL never yield NULL
SqlIsNull(a) == SqlBool(a.k = "null")

SqlIsNotNull(a) == SqlBool(a.k # "null")

\* text || text is strict
SqlConcat(a, b) ==
    IF a.k = "null" \/ b.k = "null" THEN NullText ELSE Text(a.s \o b.s)

IsPrefix(p, s) == Len(p) <= Len(s) /\ SubSeq(s, 1, Len(p)) = p

Contains(s, sub) ==
    \E i \in 1..(Len(s) - Len(sub) + 1) : SubSeq(s, i, i + Len(sub) - 1) = sub

\* text LIKE '%sub%'
SqlLikeContains(a, sub) ==
    IF a.k = "null" THEN "N" ELSE SqlBool(Contains(a.s, sub))

Colon == <<":">>

AtSha256 == <<"@", "s", "h", "a", "2", "5", "6", ":">>

HttpScheme == <<"h", "t", "t", "p", ":", "/", "/">>

HttpsScheme == <<"h", "t", "t", "p", "s", ":", "/", "/">>

\* regexp_replace(t, '^https?://', '')
RegexpReplaceScheme(a) ==
    IF a.k = "null" THEN NullText
    ELSE IF IsPrefix(HttpsScheme, a.s)
         THEN Text(SubSeq(a.s, Len(HttpsScheme) + 1, Len(a.s)))
    ELSE IF IsPrefix(HttpScheme, a.s)
         THEN Text(SubSeq(a.s, Len(HttpScheme) + 1, Len(a.s)))
    ELSE a

-----------------------------------------------------------------------------
(* A package value: a JSON object with the keys below (each possibly       *)
(* absent), SQL NULL, the JSON scalar null, or a raised error.             *)

Keys == {"registryType", "identifier", "registryBaseUrl", "version",
         "fileSha256", "transport", "runtimeHint", "packageArguments",
         "environmentVariables"}

NoKeys == [key \in Keys |-> Absent]

Object(f) == [kind |-> "object", f |-> f]

SqlNullPkg == [kind |-> "sqlnull", f |-> NoKeys]

JsonNullPkg == [kind |-> "jsonnull", f |-> NoKeys]

ErrorPkg == [kind |-> "error", f |-> NoKeys]

\* pkg->>'key': NULL for SQL NULL, for a non-object, for an absent key and
\* for a JSON null value; the text of the value otherwise.
Arrow(p, key) ==
    IF p.kind = "object" /\ p.f[key].k \in {"str", "obj"}
    THEN Text(p.f[key].s)
    ELSE NullText

\* pkg ? 'key': key presence (a JSON null value counts as present)
HasKey(p, key) ==
    CASE p.kind = "object" -> SqlBool(p.f[key].k # "absent")
      [] p.kind = "jsonnull" -> "F"
      [] OTHER -> "N"

\* pkg - 'key' (strict; deleting from a scalar raises)
Minus(p, key) ==
    CASE p.kind = "object" -> Object([p.f EXCEPT ![key] = Absent])
      [] p.kind = "jsonnull" -> ErrorPkg
      [] OTHER -> p

\* to_jsonb(text) is strict
ToJsonb(t) == IF t.k = "null" THEN NullText ELSE t

\* jsonb_set(pkg, '{key}', v) for a jsonb v that is SQL NULL or a value:
\* strict, and setting a path in a scalar raises
JsonbSet(p, key, v) ==
    CASE p.kind = "error" -> p
      [] p.kind = "sqlnull" \/ v.k = "null" -> SqlNullPkg
      [] p.kind = "jsonnull" -> ErrorPkg
      [] OTHER -> Object([p.f EXCEPT ![key] = v])

-----------------------------------------------------------------------------
(* Text literals of the migration.                                         *)

Oci == <<"o", "c", "i">>

Mcpb == <<"m", "c", "p", "b">>

DockerIo == <<"d", "o", "c", "k", "e", "r", ".", "i", "o">>

Latest == <<"l", "a", "t", "e", "s", "t">>

Slash == <<"/">>

Stdio == <<"s", "t", "d", "i", "o">>

\* '{"type": "stdio"}'::jsonb
StdioTransport == JObj(Stdio)

-----------------------------------------------------------------------------
(* The helper functions.                                                   *)

\* mutant: the scheme prefix is not stripped
registry_host_keeps_scheme(registry_url) ==
    IF IsTrue(SqlIsNotNull(registry_url)) THEN registry_url ELSE Text(DockerIo)

\* IF registry_url IS NOT NULL THEN regexp_replace(..) ELSE 'docker.io'
registry_host(registry_url) ==
    IF IsTrue(SqlIsNotNull(registry_url))
    THEN RegexpReplaceScheme(registry_url)
    ELSE Text(DockerIo)

\* registry_host || '/' || identifier || ':' || version_str, or ':latest'
canonical_ref(host, identifier, version_str) ==
    IF IsTrue(SqlAnd(SqlIsNotNull(version_str), SqlNe(version_str, Text(<<>>))))
    THEN SqlConcat(SqlConcat(SqlConcat(SqlConcat(host, Text(Slash)), identifier),
                             Text(Colon)), version_str)
    ELSE SqlConcat(SqlConcat(SqlConcat(host, Text(Slash)), identifier),
                   Text(Colon \o Latest))

\* mutant: only the digest form is recognised as canonical
already_canonical_digest_only(registry_url, identifier) ==
    IsTrue(SqlAnd(SqlIsNull(registry_url), SqlLikeContains(identifier, AtSha256)))

\* registry_url IS NULL AND (identifier LIKE '%:%' OR identifier LIKE '%@sha256:%')
already_canonical(registry_url, identifier) ==
    IsTrue(SqlAnd(SqlIsNull(registry_url),
                  SqlOr(SqlLikeContains(identifier, Colon),
                        SqlLikeContains(identifier, AtSha256))))

\* mutant: the already-canonical early return is missing
convert_oci_without_canonical_check(p) ==
    IF p.kind = "error" THEN p
    ELSE IF IsTrue(SqlNe(Arrow(p, "registryType"), Text(Oci))) THEN p
    ELSE LET ref == canonical_ref(registry_host(Arrow(p, "registryBaseUrl")),
                                  Arrow(p, "identifier"), Arrow(p, "version"))
             r1 == JsonbSet(p, "identifier", ToJsonb(ref))
             r2 == Minus(r1, "registryBaseUrl")
         IN  Minus(r2, "version")

convert_oci_package_to_canonical(p) ==
    IF p.kind = "error" THEN p
    ELSE IF IsTrue(SqlNe(Arrow(p, "registryType"), Text(Oci))) THEN p
    ELSE IF already_canonical(Arrow(p, "registryBaseUrl"), Arrow(p, "identifier"))
         THEN p
    ELSE LET ref == canonical_ref(registry_host(Arrow(p, "registryBaseUrl")),
                                  Arrow(p, "identifier"), Arrow(p, "version"))
             r1 == JsonbSet(p, "identifier", ToJsonb(ref))
             r2 == Minus(r1, "registryBaseUrl")
         IN  Minus(r2, "version")

\* mutant: registryBaseUrl is not removed
convert_mcpb_keeps_registry_base_url(p) ==
    IF p.kind = "error" THEN p
    ELSE IF IsTrue(SqlNe(Arrow(p, "registryType"), Text(Mcpb))) THEN p
    ELSE Minus(p, "version")

convert_mcpb_package_to_canonical(p) ==
    IF p.kind = "error" THEN p
    ELSE IF IsTrue(SqlNe(Arrow(p, "registryType"), Text(Mcpb))) THEN p
    ELSE Minus(Minus(p, "version"), "registryBaseUrl")

remove_forbidden_fields_strips_version(p) ==
    IF p.kind = "error" THEN p
    ELSE IF IsTrue(SqlNe(Arrow(p, "registryType"), Text(Mcpb)))
         THEN Minus(Minus(p, "fileSha256"), "version")
    ELSE p

remove_forbidden_fields(p) ==
    IF p.kind = "error" THEN p
    ELSE IF IsTrue(SqlAnd(SqlNe(Arrow(p, "registryType"), Text(Mcpb)),
                          HasKey(p, "fileSha256")))
         THEN Minus(p, "fileSha256")
    ELSE p

ensure_transport_field(p) ==
    IF p.kind = "error" THEN p
    ELSE IF IsTrue(HasKey(p, "transport")) THEN p
    ELSE JsonbSet(p, "transport", StdioTransport)

\* the element jsonb_build_array(pkg) appends: SQL NULL becomes JSON null
array_element(p) == IF p.kind = "sqlnull" THEN JsonNullPkg ELSE p

\* the loop body of convert_packages_array: what one element becomes
loop_body(p) ==
    array_element(
        ensure_transport_field(
            remove_forbidden_fields(
                convert_mcpb_package_to_canonical(
                    convert_oci_package_to_canonical(p)))))

(* A jsonb value that should be an array: SQL NULL, an array of elements,  *)
(* a JSON scalar (null included), or a raised error.                       *)

SqlNullArray == [kind |-> "sqlnull", elems |-> <<>>]

Array(elems) == [kind |-> "array", elems |-> elems]

ScalarArray == [kind |-> "scalar", elems |-> <<>>]

ErrorArray == [kind |-> "error", elems |-> <<>>]

\* mutant: each converted element is put in front of result
RECURSIVE convert_loop_prepends(_, _)
convert_loop_prepends(elems, res) ==
    IF elems = <<>> THEN res
    ELSE convert_loop_prepends(Tail(elems), <<loop_body(Head(elems))>> \o res)

\* FOR pkg IN SELECT * FROM jsonb_array_elements(packages) LOOP ...
\*     result := result || jsonb_build_array(pkg)
RECURSIVE convert_loop(_, _)
convert_loop(elems, res) ==
    IF elems = <<>> THEN res
    ELSE convert_loop(Tail(elems), Append(res, loop_body(Head(elems))))

\* jsonb_array_length of a scalar raises; of SQL NULL it is never evaluated
\* to a value (packages IS NULL OR ... is already TRUE)
convert_packages_array(a) ==
    CASE a.kind = "sqlnull" -> a
      [] a.kind = "array" ->
           IF Len(a.elems) = 0 THEN a
           ELSE LET res == convert_loop(a.elems, <<>>)
                IN  IF \E i \in 1..Len(res) : res[i].kind = "error"
                    THEN ErrorArray
                    ELSE Array(res)
      [] OTHER -> ErrorArray

-----------------------------------------------------------------------------
(* Inputs: the package objects an element of a packages array may be.      *)

RegistryTypes ==
    {Absent, JNull, JStr(Oci), JStr(Mcpb), JStr(<<"n", "p", "m">>),
     JStr(<<"z", "z">>)}

Identifiers ==
    {Absent, JNull, JStr(<<>>),
     JStr(<<"n", "s", "/", "i", "m", "g">>),
     JStr(<<"g", "h", "c", "r", ".", "i", "o", "/", "n", "s", "/", "i", "m", "g",
            ":", "1", ".", "0">>),
     JStr(<<"n", "s", "/", "i", "m", "g", "@", "s", "h", "a", "2", "5", "6", ":",
            "a", "b">>)}

RegistryBaseUrls ==
    {Absent, JNull, JStr(<<>>),
     JStr(<<"h", "t", "t", "p", "s", ":", "/", "/", "d", "o", "c", "k", "e", "r",
            ".", "i", "o">>),
     JStr(<<"h", "t", "t", "p", ":", "/", "/", "g", "h", "c", "r", ".", "i", "o">>),
     JStr(<<"g", "h", "c", "r", ".", "i", "o">>)}

Versions == {Absent, JNull, JStr(<<>>), JStr(<<"1", ".", "2", ".", "3">>)}

FileSha256s == {Absent, JNull, JStr(<<"a", "b", "c", "d">>)}

Transports == {Absent, JNull, StdioTransport, JObj(<<"s", "s", "e">>)}

RuntimeHints == {Absent, JStr(<<"d", "o", "c", "k", "e", "r">>)}

Opaques == {Absent, JObj(<<"x">>)}

Packages ==
    { Object([registryType |-> t, identifier |-> i, registryBaseUrl |-> u,
              version |-> v, fileSha256 |-> h, transport |-> tr,
              runtimeHint |-> rh, packageArguments |-> a,
              environmentVariables |-> e]) :
        t \in RegistryTypes, i \in Identifiers, u \in RegistryBaseUrls,
        v \in Versions, h \in FileSha256s, tr \in Transports,
        rh \in RuntimeHints, a \in Opaques, e \in Opaques }

-----------------------------------------------------------------------------
(* One element of a packages array going through the loop body of          *)
(* convert_packages_array, and the migration being run again on the        *)
(* array the previous run stored.                                          *)

Init ==
    /\ input \in Packages
    /\ pkg = input
    /\ prev = input
    /\ pc = "oci"
    /\ pass = 1
    /\ first = input
    /\ ArrayIdle /\ MigIdle /\ OciIdle /\ OuterIdle

ConvertOci ==
    /\ pc = "oci"
    /\ prev' = pkg
    /\ pkg' = convert_oci_package_to_canonical(pkg)
    /\ pc' = "mcpb"
    /\ UNCHANGED <<input, pass, first>>
    /\ UNCHANGED <<arrayVars, migVars, ociVars, outerVars>>

ConvertMcpb ==
    /\ pc = "mcpb"
    /\ prev' = pkg
    /\ pkg' = convert_mcpb_package_to_canonical(pkg)
    /\ pc' = "forbidden"
    /\ UNCHANGED <<input, pass, first>>
    /\ UNCHANGED <<arrayVars, migVars, ociVars, outerVars>>

RemoveForbidden ==
    /\ pc = "forbidden"
    /\ prev' = pkg
    /\ pkg' = remove_forbidden_fields(pkg)
    /\ pc' = "transport"
    /\ UNCHANGED <<input, pass, first>>
    /\ UNCHANGED <<arrayVars, migVars, ociVars, outerVars>>

EnsureTransport ==
    /\ pc = "transport"
    /\ prev' = pkg
    /\ pkg' = ensure_transport_field(pkg)
    /\ pc' = "append"
    /\ UNCHANGED <<input, pass, first>>
    /\ UNCHANGED <<arrayVars, migVars, ociVars, outerVars>>

AppendElement ==
    /\ pc = "append"
    /\ prev' = pkg
    /\ pkg' = array_element(pkg)
    /\ pc' = "done"
    /\ UNCHANGED <<input, pass, first>>
    /\ UNCHANGED <<arrayVars, migVars, ociVars, outerVars>>

RunAgain ==
    /\ pc = "done"
    /\ pass < MaxPass
    /\ pass' = pass + 1
    /\ first' = IF pass = 1 THEN pkg ELSE first
    /\ pc' = "oci"
    /\ UNCHANGED <<input, pkg, prev>>
    /\ UNCHANGED <<arrayVars, migVars, ociVars, outerVars>>

Next ==
    \/ ConvertOci
    \/ ConvertMcpb
    \/ RemoveForbidden
    \/ EnsureTransport
    \/ AppendElement
    \/ RunAgain

Spec == Init /\ [][Next]_vars

-----------------------------------------------------------------------------
(* convert_packages_array called on a whole array.                         *)

\* Longest array passed to convert_packages_array
MaxArrayLen == 3

Pkg(t, i, u, v, h) ==
    Object([NoKeys EXCEPT !.registryType = t, !.identifier = i,
                          !.registryBaseUrl = u, !.version = v,
                          !.fileSha256 = h])

NsImgId == JStr(<<"n", "s", "/", "i", "m", "g">>)

V123 == JStr(<<"1", ".", "2", ".", "3">>)

\* a legacy oci package, an npm package with a version, an mcpb package
\* with version and fileSha256, a canonical oci package, and an oci package
\* without identifier
SamplePackages ==
    { Pkg(JStr(Oci), NsImgId, JStr(HttpsScheme \o DockerIo), V123, Absent),
      Pkg(JStr(<<"n", "p", "m">>), NsImgId, Absent, V123, Absent),
      Pkg(JStr(Mcpb), NsImgId, Absent, V123, JStr(<<"a", "b", "c", "d">>)),
      Pkg(JStr(Oci), JStr(DockerIo \o Slash \o NsImgId.s \o Colon \o Latest),
          Absent, Absent, Absent),
      Pkg(JStr(Oci), Absent, Absent, V123, Absent) }

RECURSIVE SeqsUpTo(_, _)
SeqsUpTo(S, n) ==
    IF n = 0 THEN {<<>>}
    ELSE LET shorter == SeqsUpTo(S, n - 1)
         IN  shorter \cup {Append(s, x) : s \in shorter, x \in S}

ArrayInputs ==
    {SqlNullArray, ScalarArray}
        \cup {Array(s) : s \in SeqsUpTo(SamplePackages, MaxArrayLen)}

InitArray ==
    /\ packages \in ArrayInputs
    /\ result = packages
    /\ apc = "call"
    /\ PipeIdle /\ MigIdle /\ OciIdle /\ OuterIdle

CallConvertPackagesArray ==
    /\ apc = "call"
    /\ result' = convert_packages_array(packages)
    /\ apc' = "returned"
    /\ UNCHANGED <<packages, pipeVars, migVars, ociVars, outerVars>>

NextArray == CallConvertPackagesArray

SpecArray == InitArray /\ [][NextArray]_vars

-----------------------------------------------------------------------------
(* The migration scripts (live: lines 22-379, dry run: lines 405-680) run  *)
(* by psql against the servers and schema_migrations tables.               *)

\* Most script runs in a behaviour
MaxRuns == 2

\* VALUES (10, '010_migrate_canonical_package_refs', NOW())
MigrationVersion == 10

RecordIds == {"r1", "r2"}

\* value ? 'packages' is false
AbsentArray == [kind |-> "absent", elems |-> <<>>]

\* "packages": null
JsonNullArray == [kind |-> "jsonnull", elems |-> <<>>]

LegacyOciPackage ==
    Pkg(JStr(Oci), NsImgId, JStr(HttpsScheme \o DockerIo), V123, Absent)

NpmPackage == Pkg(JStr(<<"n", "p", "m">>), NsImgId, Absent, V123, Absent)

OciWithoutIdentifier == Pkg(JStr(Oci), Absent, Absent, Absent, Absent)

\* value->'packages' of the sample records
PackagesFields ==
    { AbsentArray, JsonNullArray, Array(<<>>),
      Array(<<LegacyOciPackage>>),
      Array(<<NpmPackage, LegacyOciPackage>>),
      Array(<<OciWithoutIdentifier>>) }

\* servers.value: the packages field and the rest of the document
RecordValues ==
    {[description |-> "text", packages |-> f] : f \in PackagesFields}

Database(s, m, f) == [servers |-> s, schema_migrations |-> m, functions |-> f]

NoTx == [open |-> FALSE, failed |-> FALSE, todo |-> {}, snap |-> <<>>]

\* WHERE value ? 'packages' AND value->'packages' IS NOT NULL
\*   AND jsonb_array_length(value->'packages') > 0
\* "E": jsonb_array_length raises on a scalar
packages_where(v) ==
    CASE v.packages.kind = "absent" -> "F"
      [] v.packages.kind = "array" -> SqlBool(Len(v.packages.elems) > 0)
      [] OTHER -> "E"

\* ... AND EXISTS (SELECT 1 FROM jsonb_array_elements(value->'packages') AS pkg
\*                 WHERE pkg ? 'registryBaseUrl' OR pkg ? 'version')
old_format_where(v) ==
    IF packages_where(v) # "T" THEN packages_where(v)
    ELSE SqlBool(\E i \in 1..Len(v.packages.elems) :
                    IsTrue(SqlOr(HasKey(v.packages.elems[i], "registryBaseUrl"),
                                 HasKey(v.packages.elems[i], "version"))))

\* SELECT COUNT(*) INTO remaining_count FROM servers WHERE ...
count_old_format(s) ==
    Cardinality({r \in DOMAIN s : old_format_where(s[r]) = "T"})

\* a count query raises when some row's packages is a scalar
count_raises(s) == \E r \in DOMAIN s : packages_where(s[r]) = "E"

\* mutant: the whole value is rebuilt from the new packages
update_row_rebuilds_value(v) ==
    IF packages_where(v) = "T"
    THEN [description |-> "", packages |-> convert_packages_array(v.packages)]
    ELSE v

\* SET value = jsonb_set(value, '{packages}',
\*                       convert_packages_array(value->'packages')) WHERE ...
update_row(v) ==
    IF packages_where(v) = "T"
    THEN [v EXCEPT !.packages = convert_packages_array(v.packages)]
    ELSE v

\* mutant: a plain INSERT that adds the row whatever is there
insert_migration_always(m) == Append(m, MigrationVersion)

\* INSERT INTO schema_migrations ... ON CONFLICT (version) DO NOTHING
insert_migration(m) ==
    IF \E i \in 1..Len(m) : m[i] = MigrationVersion
    THEN m
    ELSE Append(m, MigrationVersion)

\* mutant: the script ends with COMMIT in both modes
end_transaction_commits_dry_run(m, t, db) ==
    IF ~t.failed THEN db ELSE t.snap

\* mutant: what was done before a failure is kept
end_transaction_keeps_partial_work(m, t, db) ==
    IF m = "live" THEN db ELSE t.snap

\* COMMIT (live; it rolls back when the transaction has failed) or ROLLBACK
\* (dry run): the database the script leaves
end_transaction(m, t, db) ==
    IF m = "live" /\ ~t.failed THEN db ELSE t.snap

InitMigration ==
    /\ servers \in [RecordIds -> RecordValues]
    /\ schema_migrations \in {<<9>>, <<9, MigrationVersion>>}
    /\ functions \in BOOLEAN
    /\ tx = NoTx
    /\ mpc = "ready"
    /\ mode = "none"
    /\ runs = 0
    /\ remaining_count = 0
    /\ history = <<>>
    /\ PipeIdle /\ ArrayIdle /\ OciIdle /\ OuterIdle

\* BEGIN (line 22, line 405)
Begin ==
    /\ mpc = "ready"
    /\ runs < MaxRuns
    /\ \E m \in {"live", "dry"} : mode' = m
    /\ tx' = [open |-> TRUE, failed |-> FALSE, todo |-> RecordIds,
              snap |-> Database(servers, schema_migrations, functions)]
    /\ mpc' = "create"
    /\ UNCHANGED <<servers, schema_migrations, functions, runs,
                   remaining_count, history>>
    /\ UNCHANGED <<pipeVars, arrayVars, ociVars, outerVars>>

\* CREATE OR REPLACE FUNCTION ... (five helper functions)
CreateFunctions ==
    /\ mpc = "create"
    /\ functions' = TRUE
    /\ mpc' = "before"
    /\ UNCHANGED <<servers, schema_migrations, tx, mode, runs,
                   remaining_count, history>>
    /\ UNCHANGED <<pipeVars, arrayVars, ociVars, outerVars>>

\* DO $$ ... counts BEFORE MIGRATION ... $$ and the SELECTs that follow
BeforeReport ==
    /\ mpc = "before"
    /\ tx' = [tx EXCEPT !.failed = count_raises(servers)]
    /\ mpc' = "update"
    /\ UNCHANGED <<servers, schema_migrations, functions, mode, runs,
                   remaining_count, history>>
    /\ UNCHANGED <<pipeVars, arrayVars, ociVars, outerVars>>

\* UPDATE servers SET value = ... WHERE ...: one row, in any order
UpdateRow ==
    /\ mpc = "update"
    /\ ~tx.failed
    /\ tx.todo # {}
    /\ \E r \in tx.todo :
           /\ servers' = [servers EXCEPT ![r] = update_row(servers[r])]
           /\ tx' = [tx EXCEPT !.todo = tx.todo \ {r}]
    /\ UNCHANGED <<schema_migrations, functions, mpc, mode, runs,
                   remaining_count, history>>
    /\ UNCHANGED <<pipeVars, arrayVars, ociVars, outerVars>>

\* the UPDATE raises while rows are still to be rewritten (cancelled
\* statement, lock timeout, lost connection): the transaction is aborted
UpdateFails ==
    /\ mpc = "update"
    /\ ~tx.failed
    /\ tx.todo # {}
    /\ tx' = [tx EXCEPT !.failed = TRUE]
    /\ UNCHANGED <<servers, schema_migrations, functions, mpc, mode, runs,
                   remaining_count, history>>
    /\ UNCHANGED <<pipeVars, arrayVars, ociVars, outerVars>>

\* DO $$ ... remaining_count ... RAISE NOTICE ... $$ (nothing is reported in
\* an aborted transaction)
AfterReport ==
    /\ mpc = "update"
    /\ tx.failed \/ tx.todo = {}
    /\ remaining_count' = IF tx.failed THEN -1 ELSE count_old_format(servers)
    /\ mpc' = "drop"
    /\ UNCHANGED <<servers, schema_migrations, functions, tx, mode, runs,
                   history>>
    /\ UNCHANGED <<pipeVars, arrayVars, ociVars, outerVars>>

\* DROP FUNCTION IF EXISTS ... (five helper functions)
DropFunctions ==
    /\ mpc = "drop"
    /\ functions' = IF tx.failed THEN functions ELSE FALSE
    /\ mpc' = IF mode = "live" THEN "insert" ELSE "end"
    /\ UNCHANGED <<servers, schema_migrations, tx, mode, runs,
                   remaining_count, history>>
    /\ UNCHANGED <<pipeVars, arrayVars, ociVars, outerVars>>

\* INSERT INTO schema_migrations ... (live script only)
RecordMigration ==
    /\ mpc = "insert"
    /\ schema_migrations' =
           IF tx.failed THEN schema_migrations
           ELSE insert_migration(schema_migrations)
    /\ mpc' = "end"
    /\ UNCHANGED <<servers, functions, tx, mode, runs, remaining_count,
                   history>>
    /\ UNCHANGED <<pipeVars, arrayVars, ociVars, outerVars>>

\* COMMIT (line 379) or ROLLBACK (line 680)
EndTransaction ==
    /\ mpc = "end"
    /\ LET db == end_transaction(mode, tx,
                     Database(servers, schema_migrations, functions))
       IN  /\ servers' = db.servers
           /\ schema_migrations' = db.schema_migrations
           /\ functions' = db.functions
           /\ history' = Append(history,
                  [mode |-> mode, ok |-> ~tx.failed,
                   remaining_count |-> remaining_count,
                   before |-> tx.snap,
                   rewrote |-> servers # tx.snap.servers, after |-> db])
    /\ tx' = NoTx
    /\ runs' = runs + 1
    /\ mpc' = "ready"
    /\ UNCHANGED <<mode, remaining_count>>
    /\ UNCHANGED <<pipeVars, arrayVars, ociVars, outerVars>>

NextMigration ==
    \/ Begin
    \/ CreateFunctions
    \/ BeforeReport
    \/ UpdateRow
    \/ UpdateFails
    \/ AfterReport
    \/ DropFunctions
    \/ RecordMigration
    \/ EndTransaction

SpecMigration == InitMigration /\ [][NextMigration]_vars

-----------------------------------------------------------------------------
(* Vocabulary of the properties.                                           *)

IsObject(p) == p.kind = "object"

TypeIs(p, name) == IsObject(p) /\ p.f.registryType = JStr(name)

HasValue(p, key) == p.f[key].k \notin {"absent", "jnull"}

Without(p, key) == Object([p.f EXCEPT ![key] = Absent])

WithDefaultTransport(p) ==
    IF p.f.transport = Absent
    THEN Object([p.f EXCEPT !.transport = StdioTransport])
    ELSE p

HasTagOrDigest(s) == Contains(s, Colon) \/ Contains(s, AtSha256)

\* an oci package with a string identifier that is in the legacy shape
LegacyOci(p) ==
    /\ TypeIs(p, Oci)
    /\ p.f.identifier.k = "str"
    /\ (HasValue(p, "registryBaseUrl") \/ ~HasTagOrDigest(p.f.identifier.s))

\* an oci package that is already canonical
CanonicalOci(p) ==
    /\ TypeIs(p, Oci)
    /\ p.f.identifier.k = "str"
    /\ ~HasValue(p, "registryBaseUrl")
    /\ HasTagOrDigest(p.f.identifier.s)

WithoutScheme(s) ==
    IF IsPrefix(HttpsScheme, s) THEN SubSeq(s, 9, Len(s))
    ELSE IF IsPrefix(HttpScheme, s) THEN SubSeq(s, 8, Len(s))
    ELSE s

ExpectedHost(p) ==
    IF HasValue(p, "registryBaseUrl")
    THEN WithoutScheme(p.f.registryBaseUrl.s)
    ELSE DockerIo

ExpectedTag(p) ==
    IF HasValue(p, "version") /\ p.f.version.s # <<>>
    THEN p.f.version.s
    ELSE Latest

NsImg == <<"n", "s", "/", "i", "m", "g">>

-----------------------------------------------------------------------------
\* C1: running the pipeline again on its own output gives that output back:
\* after every run past the first, the element equals the first run's result.
C1_Idempotent == (pc = "done" /\ pass >= 2) => pkg = first

C1_Witness ==
    /\ pc = "done" /\ pass = 2
    /\ LegacyOci(input)
    /\ first # input
    /\ pkg = first

\* C2: after canonicalization an oci package carries none of
\* registryBaseUrl, version, fileSha256.
C2_OciCarriesNoLegacyField ==
    (pc = "done" /\ TypeIs(pkg, Oci)) =>
        /\ pkg.f.registryBaseUrl = Absent
        /\ pkg.f.version = Absent
        /\ pkg.f.fileSha256 = Absent

\* C3: on a legacy oci package the OCI rewrite sets identifier to
\* host/identifier:tag (host: registryBaseUrl without its http(s):// prefix, or
\* docker.io; tag: version, or latest when absent or empty) and deletes
\* registryBaseUrl and version.
C3_OciRewrite ==
    (pc = "mcpb" /\ LegacyOci(prev)) =>
        /\ IsObject(pkg)
        /\ pkg.f.identifier =
               JStr(ExpectedHost(prev) \o Slash \o prev.f.identifier.s
                    \o Colon \o ExpectedTag(prev))
        /\ pkg.f.registryBaseUrl = Absent
        /\ pkg.f.version = Absent

C3_Witness ==
    /\ pc = "mcpb" /\ pass = 1
    /\ LegacyOci(prev)
    /\ prev.f.registryBaseUrl = JStr(HttpsScheme \o DockerIo)
    /\ prev.f.identifier = JStr(NsImg)
    /\ prev.f.version = JStr(<<"1", ".", "2", ".", "3">>)
    /\ pkg.f.identifier =
           JStr(DockerIo \o Slash \o NsImg \o <<":", "1", ".", "2", ".", "3">>)

\* C4 as stated: on a canonical oci package the OCI rewrite is a no-op and the
\* whole pipeline changes nothing except adding the default transport.
C4_CanonicalOnlyGainsTransport ==
    /\ (pc = "mcpb" /\ CanonicalOci(prev)) => pkg = prev
    /\ (pc = "done" /\ pass = 1 /\ CanonicalOci(input)) =>
           pkg = WithDefaultTransport(input)

\* C4 amended: on a canonical oci package the OCI rewrite is a no-op and the
\* whole pipeline changes nothing except removing fileSha256 and adding the
\* default transport.
C4_CanonicalNoOp ==
    /\ (pc = "mcpb" /\ CanonicalOci(prev)) => pkg = prev
    /\ (pc = "done" /\ pass = 1 /\ CanonicalOci(input)) =>
           pkg = WithDefaultTransport(Without(input, "fileSha256"))

C4_Witness ==
    /\ pc = "done" /\ pass = 1
    /\ CanonicalOci(input)
    /\ HasValue(input, "fileSha256")
    /\ input.f.transport = Absent
    /\ pkg.f.identifier = input.f.identifier
    /\ pkg.f.fileSha256 = Absent
    /\ pkg.f.transport = StdioTransport

\* C5: for an mcpb package canonicalization removes version and
\* registryBaseUrl and keeps fileSha256 and identifier as they were.
C5_McpbRewrite ==
    (pc = "done" /\ TypeIs(input, Mcpb)) =>
        /\ IsObject(pkg)
        /\ pkg.f.version = Absent
        /\ pkg.f.registryBaseUrl = Absent
        /\ pkg.f.fileSha256 = input.f.fileSha256
        /\ pkg.f.identifier = input.f.identifier

C5_Witness ==
    /\ pc = "done" /\ pass = 1
    /\ TypeIs(input, Mcpb)
    /\ HasValue(input, "version")
    /\ HasValue(input, "registryBaseUrl")
    /\ HasValue(input, "fileSha256")
    /\ pkg.f.version = Absent
    /\ pkg.f.registryBaseUrl = Absent
    /\ pkg.f.fileSha256 = input.f.fileSha256

\* C6: after canonicalization no package whose registryType is not mcpb
\* (missing and null types included) carries fileSha256.
C6_NoFileSha256OutsideMcpb ==
    (pc = "done" /\ IsObject(pkg) /\ ~TypeIs(pkg, Mcpb)) =>
        pkg.f.fileSha256 = Absent

\* C7: after canonicalization every package has a transport: {type: stdio}
\* when the input had none, the input's own otherwise.
C7_TransportPresent ==
    (pc = "done") =>
        /\ IsObject(pkg)
        /\ pkg.f.transport =
               (IF input.f.transport = Absent THEN StdioTransport
                ELSE input.f.transport)

\* C8: canonicalization never errors and never replaces a package by null;
\* a package of unknown type comes out unchanged apart from the fileSha256
\* strip and the transport default.
C8_TotalPassThrough ==
    (pc = "done") =>
        /\ IsObject(pkg)
        /\ (/\ pass = 1
            /\ input.f.registryType.k = "str"
            /\ ~TypeIs(input, Oci)
            /\ ~TypeIs(input, Mcpb)) =>
               pkg = WithDefaultTransport(Without(input, "fileSha256"))

\* C9: the OCI rewrite changes nothing of a package whose registryType is not
\* oci, and the MCPB rewrite nothing of one whose registryType is not mcpb
\* (missing and null types included).
C9_StagesLeaveOtherTypes ==
    /\ (pc = "mcpb" /\ IsObject(prev) /\ ~TypeIs(prev, Oci)) => pkg = prev
    /\ (pc = "forbidden" /\ IsObject(prev) /\ ~TypeIs(prev, Mcpb)) => pkg = prev

\* C10: canonicalization never changes registryType, runtimeHint, arguments
\* or environment variables.
C10_OpaqueFieldsKept ==
    (pc = "done") =>
        \A key \in {"registryType", "runtimeHint", "packageArguments",
                    "environmentVariables"} :
            pkg.f[key] = input.f[key]

-----------------------------------------------------------------------------
-----------------------------------------------------------------------------
(* Vocabulary of the migration properties: history holds, for every script *)
(* run to its end, the database before it, whether the script had changed  *)
(* a row when it reached COMMIT or ROLLBACK, and the database after it.    *)

Runs == 1..Len(history)

Recorded(m) == \E i \in 1..Len(m) : m[i] = MigrationVersion

TimesRecorded(m) == Cardinality({i \in 1..Len(m) : m[i] = MigrationVersion})

NoNonEmptyPackages(v) ==
    \/ v.packages.kind \in {"absent", "jsonnull"}
    \/ v.packages.kind = "array" /\ Len(v.packages.elems) = 0

\* C12: a dry run leaves every stored record, schema_migrations and the
\* helper functions exactly as they were before it.
C12_DryRunPersistsNothing ==
    \A i \in Runs :
        history[i].mode = "dry" => history[i].after = history[i].before

C12_Witness ==
    \E i \in Runs :
        /\ history[i].mode = "dry"
        /\ history[i].ok
        /\ history[i].rewrote
        /\ history[i].before.functions
        /\ history[i].after = history[i].before

\* C13: a live run that follows a successful live run leaves every record as
\* the first run left it and adds no second row for version 10.
C13_LiveReentrant ==
    \A i \in Runs :
        (/\ i + 1 \in Runs
         /\ history[i].mode = "live" /\ history[i].ok
         /\ history[i + 1].mode = "live") =>
            /\ history[i + 1].after.servers = history[i].after.servers
            /\ history[i + 1].after.schema_migrations =
                   history[i].after.schema_migrations
            /\ TimesRecorded(history[i + 1].after.schema_migrations) = 1

C13_Witness ==
    /\ Len(history) >= 2
    /\ history[1].mode = "live" /\ history[1].ok
    /\ history[1].after.servers # history[1].before.servers
    /\ history[2].mode = "live" /\ history[2].ok
    /\ history[2].after.servers = history[1].after.servers

\* C14: after a live run the reported count of remaining records with a
\* registryBaseUrl or version key is zero, and a second run writes nothing
\* new.
C14_NoLegacyRemains ==
    \A i \in Runs :
        (history[i].mode = "live" /\ history[i].ok) =>
            /\ history[i].remaining_count = 0
            /\ (i + 1 \in Runs) =>
                   history[i + 1].after.servers = history[i].after.servers

\* C15: a live run either rewrites every eligible record and records the
\* migration, or changes no record and records nothing.
C15_Atomic ==
    \A i \in Runs :
        history[i].mode = "live" =>
            \/ /\ history[i].after.servers =
                      [r \in RecordIds |-> update_row(history[i].before.servers[r])]
               /\ Recorded(history[i].after.schema_migrations)
            \/ /\ history[i].after.servers = history[i].before.servers
               /\ history[i].after.schema_migrations =
                      history[i].before.schema_migrations

C15_Witness ==
    \E i \in Runs :
        /\ history[i].mode = "live"
        /\ ~history[i].ok
        /\ history[i].rewrote
        /\ ~Recorded(history[i].before.schema_migrations)
        /\ history[i].after = history[i].before

\* C16: a record without a non-empty packages list is left unchanged, and a
\* rewritten record keeps every field other than packages.
C16_OnlyPackagesChange ==
    \A i \in Runs : \A r \in RecordIds :
        LET old == history[i].before.servers[r]
            new == history[i].after.servers[r]
        IN  /\ NoNonEmptyPackages(old) => new = old
            /\ new.description = old.description

C16_Witness ==
    \E i \in Runs : \E r, q \in RecordIds :
        /\ history[i].mode = "live" /\ history[i].ok
        /\ history[i].after.servers[r].packages #
               history[i].before.servers[r].packages
        /\ history[i].after.servers[r].description =
               history[i].before.servers[r].description
        /\ history[i].before.servers[q].packages = AbsentArray
        /\ history[i].after.servers[q] = history[i].before.servers[q]

-----------------------------------------------------------------------------
(* ValidateOCI (internal/validators/registries/oci.go): one call, from its *)
(* arguments to the error it returns. Identifiers are sequences of         *)
(* characters; the server name and the label value are only compared.      *)

StatusTooManyRequests == 429

StatusNotFound == 404

StatusUnauthorized == 401

\* status codes of a transport.Error the function has no branch for
OtherStatuses == {403, 500}

GhcrIo == <<"g", "h", "c", "r", ".", "i", "o">>

QuayIo == <<"q", "u", "a", "y", ".", "i", "o">>

DockerPkgDev ==
    <<"-", "d", "o", "c", "k", "e", "r", ".", "p", "k", "g", ".", "d", "e", "v">>

UsDockerPkgDev == <<"u", "s">> \o DockerPkgDev

CustomRegistry ==
    <<"c", "u", "s", "t", "o", "m", "-", "r", "e", "g", "i", "s", "t", "r",
      "y", ".", "c", "o", "m">>

\* the registry name.ParseReference resolves an identifier without a
\* registry to
IndexDockerIo == <<"i", "n", "d", "e", "x", ".">> \o DockerIo

Lower ==
    {"a", "b", "c", "d", "e", "f", "g", "h", "i", "j", "k", "l", "m", "n",
     "o", "p", "q", "r", "s", "t", "u", "v", "w", "x", "y", "z"}

Upper ==
    {"A", "B", "C", "D", "E", "F", "G", "H", "I", "J", "K", "L", "M", "N",
     "O", "P", "Q", "R", "S", "T", "U", "V", "W", "X", "Y", "Z"}

Digits == {"0", "1", "2", "3", "4", "5", "6", "7", "8", "9"}

RepositoryChars == Lower \cup Digits \cup {".", "_", "-", "/"}

TagChars == Lower \cup Upper \cup Digits \cup {".", "_", "-"}

AllIn(s, chars) == \A i \in 1..Len(s) : s[i] \in chars

\* index of the first / last occurrence of character c in s, 0 for none
FirstIndex(s, c) ==
    IF \E i \in 1..Len(s) : s[i] = c
    THEN CHOOSE i \in 1..Len(s) : s[i] = c /\ \A j \in 1..(i - 1) : s[j] # c
    ELSE 0

LastIndex(s, c) ==
    IF \E i \in 1..Len(s) : s[i] = c
    THEN CHOOSE i \in 1..Len(s) :
             s[i] = c /\ \A j \in (i + 1)..Len(s) : s[j] # c
    ELSE 0

\* name.ParseReference on an identifier without digest: the text after the
\* last ':' is the tag unless it contains a '/'; the text before the first
\* '/' is the registry if it contains a '.' or a ':'.
reference(id) ==
    LET colon == LastIndex(id, ":")
        tagged == colon > 0 /\ FirstIndex(SubSeq(id, colon + 1, Len(id)), "/") = 0
        base == IF tagged THEN SubSeq(id, 1, colon - 1) ELSE id
        tag == IF tagged THEN SubSeq(id, colon + 1, Len(id)) ELSE <<>>
        slash == FirstIndex(base, "/")
        head == SubSeq(base, 1, slash - 1)
        explicit == slash > 0 /\ (Contains(head, <<".">>) \/ Contains(head, Colon))
    IN  [registry |-> IF explicit THEN head ELSE IndexDockerIo,
         repository |-> IF explicit THEN SubSeq(base, slash + 1, Len(base))
                        ELSE base,
         tag |-> IF tag = <<>> THEN Latest ELSE tag]

registry_of(id) == reference(id).registry

NoError == [msg |-> "nil", arg |-> "none"]

Error(msg, arg) == [msg |-> msg, arg |-> arg]

\* lines 40-53
format_gate_ignores_version(p) ==
    IF p.Identifier = <<>>
    THEN Error("package identifier is required for OCI packages", "none")
    ELSE IF p.RegistryBaseURL # <<>>
    THEN Error("OCI packages must not have field", "registryBaseUrl")
    ELSE IF p.FileSHA256 # <<>>
    THEN Error("OCI packages must not have field", "fileSha256")
    ELSE NoError

format_gate(p) ==
    IF p.Identifier = <<>>
    THEN Error("package identifier is required for OCI packages", "none")
    ELSE IF p.RegistryBaseURL # <<>>
    THEN Error("OCI packages must not have field", "registryBaseUrl")
    ELSE IF p.Version # <<>>
    THEN Error("OCI packages must not have field", "version")
    ELSE IF p.FileSHA256 # <<>>
    THEN Error("OCI packages must not have field", "fileSha256")
    ELSE NoError

\* the hosts TestValidateOCI_RegistryAllowlist expects to be accepted
AllowedRegistry(host) ==
    \/ host \in {DockerIo, IndexDockerIo, GhcrIo}
    \/ /\ Len(host) > Len(DockerPkgDev)
       /\ SubSeq(host, Len(host) - Len(DockerPkgDev) + 1, Len(host)) = DockerPkgDev

\* lines 57-60
parse_reference_accepts_all(id) == NoError

parse_reference_with_allowlist(id) ==
    LET ref == reference(id)
    IN  IF ~(/\ AllIn(ref.repository, RepositoryChars)
             /\ ref.repository # <<>>
             /\ AllIn(ref.tag, TagChars))
        THEN Error("invalid OCI reference", "none")
        ELSE IF ~AllowedRegistry(ref.registry)
        THEN Error("unsupported OCI registry", ref.registry)
        ELSE NoError

parse_reference(id) ==
    LET ref == reference(id)
    IN  IF /\ AllIn(ref.repository, RepositoryChars)
           /\ ref.repository # <<>>
           /\ AllIn(ref.tag, TagChars)
        THEN NoError
        ELSE Error("invalid OCI reference", "none")

\* what a request to the registry can come back with: the response, a
\* transport.Error carrying a status code, or an error of another type
\* (no connection, or the context passed at line 68 cancelled)
Ok == [kind |-> "ok", status |-> 0, cause |-> "none"]

\* no request made
NoResponse == [kind |-> "none", status |-> 0, cause |-> "none"]

TransportError(status) ==
    [kind |-> "transport", status |-> status, cause |-> "none"]

OtherError(cause) == [kind |-> "error", status |-> 0, cause |-> cause]

Statuses ==
    {StatusTooManyRequests, StatusNotFound, StatusUnauthorized}
        \cup OtherStatuses

Failures ==
    {TransportError(s) : s \in Statuses}
        \cup {OtherError("connection refused"), OtherError("context canceled")}

\* lines 69-82: the error branch after remote.Image
remote_image_error_any_status_not_found(o) ==
    IF o.kind = "transport" /\ o.status = StatusTooManyRequests
    THEN NoError
    ELSE IF o.kind = "transport"
    THEN Error("OCI image not found or not accessible", o.status)
    ELSE Error("failed to fetch OCI image", o)

remote_image_error_drops_cause(o) ==
    IF o.kind = "transport" /\ o.status = StatusTooManyRequests
    THEN NoError
    ELSE IF o.kind = "transport"
               /\ o.status \in {StatusNotFound, StatusUnauthorized}
    THEN Error("OCI image not found or not accessible", o.status)
    ELSE Error("failed to fetch OCI image", OtherError("none"))

remote_image_error_skips_on_any_status(o) ==
    IF o.kind = "transport" /\ o.status \notin {StatusNotFound, StatusUnauthorized}
    THEN NoError
    ELSE IF o.kind = "transport"
    THEN Error("OCI image not found or not accessible", o.status)
    ELSE Error("failed to fetch OCI image", o)

remote_image_error(o) ==
    IF o.kind = "transport" /\ o.status = StatusTooManyRequests
    THEN NoError
    ELSE IF o.kind = "transport"
               /\ o.status \in {StatusNotFound, StatusUnauthorized}
    THEN Error("OCI image not found or not accessible", o.status)
    ELSE Error("failed to fetch OCI image", o)

\* lines 86-88: the error branch after img.ConfigFile
config_file_error(o) == Error("failed to get image config", o)

LabelName == "io.modelcontextprotocol.server.name"

ServerNames == {"com.example/test", "com.example/other"}

\* values of the label in the image: a server name, a prefix of one, one in
\* another case, the empty string
LabelValues ==
    ServerNames \cup {"com.example/tes", "com.example/TEST", ""}

\* configFile.Config.Labels: nil, or a map from label names to values
NilLabels == [nil |-> TRUE, map |-> <<>>]

Labels(m) == [nil |-> FALSE, map |-> m]

LabelSets ==
    {NilLabels, Labels([k \in {"maintainer"} |-> "someone"])}
        \cup {Labels([k \in {LabelName} |-> v]) : v \in LabelValues}

\* lines 91-104
check_labels_accepts_any_value(labels, serverName) ==
    IF labels.nil THEN Error("missing required annotation", serverName)
    ELSE IF LabelName \notin DOMAIN labels.map
    THEN Error("missing required annotation", serverName)
    ELSE NoError

check_labels(labels, serverName) ==
    IF labels.nil THEN Error("missing required annotation", serverName)
    ELSE IF LabelName \notin DOMAIN labels.map
    THEN Error("missing required annotation", serverName)
    ELSE IF labels.map[LabelName] # serverName
    THEN Error("OCI image ownership validation failed", labels.map[LabelName])
    ELSE NoError

Tagged(name) == name \o Colon \o Latest

\* the empty identifier, references with and without a registry, and the
\* malformed references of TestValidateOCI_InvalidReferences
OciIdentifiers ==
    { <<>>,
      Tagged(NsImg),
      Tagged(DockerIo \o Slash \o NsImg),
      Tagged(GhcrIo \o Slash \o NsImg),
      Tagged(UsDockerPkgDev \o Slash \o NsImg),
      Tagged(QuayIo \o Slash \o NsImg),
      Tagged(CustomRegistry \o Slash \o NsImg),
      NsImg \o Colon \o <<"A", " ", "B">>,
      <<"b", "a", "d">> \o Colon \o Colon }

OciPackages ==
    [Identifier : OciIdentifiers,
     RegistryBaseURL : {<<>>, HttpsScheme \o DockerIo},
     Version : {<<>>, <<"1", ".", "2", ".", "3">>},
     FileSHA256 : {<<>>, <<"a", "b", "c">>}]

NoImage == [image |-> NoResponse, config |-> NoResponse, labels |-> "none"]

InitOci ==
    /\ opkg \in OciPackages
    /\ server_name \in ServerNames
    /\ vpc = "format"
    /\ verr = NoError
    /\ net_calls = 0
    /\ img = NoImage
    /\ PipeIdle /\ ArrayIdle /\ MigIdle /\ OuterIdle

\* lines 40-53
FormatGate ==
    /\ vpc = "format"
    /\ verr' = format_gate(opkg)
    /\ vpc' = IF format_gate(opkg) = NoError THEN "parse" ELSE "returned"
    /\ UNCHANGED <<opkg, server_name, net_calls, img>>
    /\ UNCHANGED <<pipeVars, arrayVars, migVars, outerVars>>

\* lines 57-60
ParseReference ==
    /\ vpc = "parse"
    /\ verr' = parse_reference(opkg.Identifier)
    /\ vpc' = IF parse_reference(opkg.Identifier) = NoError
              THEN "fetch" ELSE "returned"
    /\ UNCHANGED <<opkg, server_name, net_calls, img>>
    /\ UNCHANGED <<pipeVars, arrayVars, migVars, outerVars>>

\* lines 68-83: remote.Image requests the manifest
RemoteImage ==
    /\ vpc = "fetch"
    /\ \E o \in {Ok} \cup Failures :
          /\ img' = [img EXCEPT !.image = o]
          /\ verr' = IF o = Ok THEN NoError ELSE remote_image_error(o)
          /\ vpc' = IF o = Ok THEN "config" ELSE "returned"
    /\ net_calls' = net_calls + 1
    /\ UNCHANGED <<opkg, server_name>>
    /\ UNCHANGED <<pipeVars, arrayVars, migVars, outerVars>>

\* lines 85-88: img.ConfigFile requests the configuration blob
ConfigFile ==
    /\ vpc = "config"
    /\ \E o \in {Ok} \cup Failures :
          /\ \E l \in IF o = Ok THEN LabelSets ELSE {"none"} :
                 img' = [img EXCEPT !.config = o, !.labels = l]
          /\ verr' = IF o = Ok THEN NoError ELSE config_file_error(o)
          /\ vpc' = IF o = Ok THEN "labels" ELSE "returned"
    /\ net_calls' = net_calls + 1
    /\ UNCHANGED <<opkg, server_name>>
    /\ UNCHANGED <<pipeVars, arrayVars, migVars, outerVars>>

\* lines 91-104
CheckLabels ==
    /\ vpc = "labels"
    /\ verr' = check_labels(img.labels, server_name)
    /\ vpc' = "returned"
    /\ UNCHANGED <<opkg, server_name, net_calls, img>>
    /\ UNCHANGED <<pipeVars, arrayVars, migVars, outerVars>>

NextOci ==
    \/ FormatGate
    \/ ParseReference
    \/ RemoteImage
    \/ ConfigFile
    \/ CheckLabels

SpecOci == InitOci /\ [][NextOci]_vars

-----------------------------------------------------------------------------
(* Vocabulary of the validator properties.                                 *)

Returned == vpc = "returned"

HasLegacyField(p) ==
    p.RegistryBaseURL # <<>> \/ p.Version # <<>> \/ p.FileSHA256 # <<>>

FirstLegacyField(p) ==
    IF p.RegistryBaseURL # <<>> THEN "registryBaseUrl"
    ELSE IF p.Version # <<>> THEN "version"
    ELSE "fileSha256"

\* passes the format gate and the reference parse
WellFormed(p) ==
    /\ p.Identifier # <<>>
    /\ ~HasLegacyField(p)
    /\ parse_reference(p.Identifier) = NoError

RateLimited == TransportError(StatusTooManyRequests)

\* C17: a package with an empty identifier, or with a non-empty
\* registryBaseUrl, version or fileSha256, is rejected with the error for
\* that defect and without any registry request, whatever its identifier.
C17_FormatGate ==
    (opkg.Identifier = <<>> \/ HasLegacyField(opkg)) =>
        /\ net_calls = 0
        /\ img = NoImage
        /\ vpc \in {"format", "returned"}
        /\ Returned =>
              verr = IF opkg.Identifier = <<>>
                     THEN Error("package identifier is required for OCI packages",
                                "none")
                     ELSE Error("OCI packages must not have field",
                                FirstLegacyField(opkg))

C17_Witness ==
    /\ Returned
    /\ opkg.Identifier = Tagged(GhcrIo \o Slash \o NsImg)
    /\ parse_reference(opkg.Identifier) = NoError
    /\ opkg.RegistryBaseURL = <<>> /\ opkg.Version # <<>>
    /\ verr = Error("OCI packages must not have field", "version")
    /\ net_calls = 0

\* C18: a well-formed package whose registry is outside the allowlist fails
\* with 'unsupported OCI registry' and without any registry request; one
\* whose registry is in the allowlist never fails with that error.
C18_AllowlistEnforced ==
    (Returned /\ WellFormed(opkg)) =>
        IF AllowedRegistry(registry_of(opkg.Identifier))
        THEN verr.msg # "unsupported OCI registry"
        ELSE verr.msg = "unsupported OCI registry" /\ net_calls = 0

C20_RateLimitSoftPass ==
    (Returned /\ (img.image = RateLimited \/ img.config = RateLimited)) =>
        verr = NoError

LabelMatches ==
    /\ img.config = Ok
    /\ ~img.labels.nil
    /\ LabelName \in DOMAIN img.labels.map
    /\ img.labels.map[LabelName] = server_name

Cancelled == OtherError("context canceled")

\* an identifier with a space or with two colons in a row
Malformed(id) == Contains(id, <<" ">>) \/ Contains(id, Colon \o Colon)

\* C21: a call whose manifest request failed with anything but status 429
\* returns 'not found or not accessible' for 404 and 401 and the wrapped
\* 'failed to fetch OCI image' for every other failure, and never nil.
C21_HardFetchFailure ==
    (Returned /\ img.image \in Failures \ {RateLimited}) =>
        /\ verr # NoError
        /\ verr =
              IF img.image \in {TransportError(StatusNotFound),
                                TransportError(StatusUnauthorized)}
              THEN Error("OCI image not found or not accessible",
                         img.image.status)
              ELSE Error("failed to fetch OCI image", img.image)

C21_Witness ==
    /\ Returned
    /\ img.image.kind = "transport" /\ img.image.status \in OtherStatuses
    /\ verr.msg = "failed to fetch OCI image"

\* C22: a call that has read the image configuration returns nil exactly
\* when the label io.modelcontextprotocol.server.name is present and equal to
\* the server name.
C22_OwnershipCheck ==
    (Returned /\ img.config = Ok) =>
        /\ (verr = NoError) <=> LabelMatches
        /\ (img.labels.nil \/ LabelName \notin DOMAIN img.labels.map) =>
               verr.msg = "missing required annotation"

C22_Witness ==
    /\ Returned
    /\ img.config = Ok
    /\ server_name = "com.example/test"
    /\ ~img.labels.nil /\ LabelName \in DOMAIN img.labels.map
    /\ img.labels.map[LabelName] = "com.example/TEST"
    /\ verr = Error("OCI image ownership validation failed", "com.example/TEST")

\* C23: the returned error is that of the first failing step in the order
\* format gate, reference parse, manifest request, configuration request,
\* label check; no step runs after a failed one, and a malformed identifier
\* that passes the format gate returns 'invalid OCI reference' without a
\* registry request.
C23_FailFast ==
    /\ net_calls >= 1 =>
          /\ opkg.Identifier # <<>> /\ ~HasLegacyField(opkg)
          /\ ~Malformed(opkg.Identifier)
    /\ img.image # Ok => img.config = NoResponse
    /\ img.config # Ok => img.labels = "none"
    /\ Returned =>
          CASE opkg.Identifier = <<>> \/ HasLegacyField(opkg) ->
                   verr.msg \in {"package identifier is required for OCI packages",
                                 "OCI packages must not have field"}
            [] OTHER ->
                   IF Malformed(opkg.Identifier)
                   THEN verr = Error("invalid OCI reference", "none")
                   ELSE IF img.image # Ok
                   THEN verr.msg \in {"nil", "OCI image not found or not accessible",
                                      "failed to fetch OCI image"}
                   ELSE IF img.config # Ok
                   THEN verr.msg = "failed to get image config"
                   ELSE verr.msg \in {"nil", "missing required annotation",
                                      "OCI image ownership validation failed"}

C23_Witness ==
    /\ Returned
    /\ ~HasLegacyField(opkg)
    /\ opkg.Identifier = NsImg \o Colon \o <<"A", " ", "B">>
    /\ verr = Error("invalid OCI reference", "none")
    /\ net_calls = 0

\* C24: a call whose manifest request was cut by the cancellation of the
\* context returns an error that carries the cancellation and equals the
\* error of no other failed request.
C24_Cancellation ==
    (Returned /\ img.image = Cancelled) =>
        /\ verr # NoError
        /\ verr.msg = "failed to fetch OCI image"
        /\ verr.arg = Cancelled
        /\ \A o \in Failures \ {Cancelled} : verr # remote_image_error(o)

C24_Witness ==
    /\ Returned
    /\ img.image = Cancelled
    /\ net_calls = 1
    /\ verr = Error("failed to fetch OCI image", Cancelled)

\* C27: a call that returns nil either had its manifest request answered
\* with status 429 or read a label equal to the server name.
C27_SuccessPaths ==
    (Returned /\ verr = NoError) =>
        \/ img.image = RateLimited
        \/ img.image = Ok /\ LabelMatches

C27_Witness ==
    /\ Returned /\ verr = NoError
    /\ img.image = Ok /\ LabelMatches
    /\ net_calls = 2

-----------------------------------------------------------------------------
Npm == <<"n", "p", "m">>

\* a package whose registryType is a string other than oci and mcpb
OtherType(p) ==
    /\ IsObject(p)
    /\ p.f.registryType.k = "str"
    /\ ~TypeIs(p, Oci) /\ ~TypeIs(p, Mcpb)

\* C28: canonicalization of a package whose registryType is a string other
\* than oci and mcpb keeps identifier, version, registryBaseUrl and every
\* other field; it only removes fileSha256 and adds the default transport
\* when there is none.
C28_OtherTypesKeepReference ==
    (pc = "done" /\ OtherType(input)) =>
        /\ IsObject(pkg)
        /\ \A key \in DOMAIN input.f \ {"fileSha256", "transport"} :
               pkg.f[key] = input.f[key]
        /\ pkg.f.fileSha256 = Absent
        /\ pkg.f.transport \in {input.f.transport, StdioTransport}
        /\ input.f.transport # Absent => pkg.f.transport = input.f.transport

C28_Witness ==
    /\ pc = "done"
    /\ TypeIs(input, Npm)
    /\ input.f.identifier = JStr(NsImg)
    /\ input.f.version = JStr(<<"1", ".", "2", ".", "3">>)
    /\ input.f.registryBaseUrl = JStr(HttpsScheme \o DockerIo)
    /\ input.f.fileSha256 # Absent /\ input.f.transport = Absent
    /\ pkg.f.identifier = input.f.identifier
    /\ pkg.f.version = input.f.version
    /\ pkg.f.registryBaseUrl = input.f.registryBaseUrl
    /\ pkg.f.fileSha256 = Absent /\ pkg.f.transport = StdioTransport

-----------------------------------------------------------------------------
(* The transport URL pattern of server.schema.json, applied by             *)
(* schema.Validate to the url of one remote of a server document           *)
(* (schema_pattern_test.go).                                               *)

\* Most characters after the start of a url
MaxUrlLen == 3

\* the characters \s stands for
Whitespace == {" ", "\t", "\n", "\f", "\r"}

UrlChars == {"a", "/", "{", "}", " ", "\n"}

\* ways a url can start: nothing, the two schemes, another scheme, a scheme
\* cut short, a scheme in upper case, a scheme after a space
UrlStarts ==
    { <<>>, HttpScheme, HttpsScheme,
      <<"f", "t", "p", ":", "/", "/">>,
      <<"h", "t", "t", "p", ":", "/">>,
      <<"H", "T", "T", "P", ":", "/", "/">>,
      <<" ">> \o HttpsScheme }

Urls == {p \o s : p \in UrlStarts, s \in SeqsUpTo(UrlChars, MaxUrlLen)}

RemoteTypes == {"streamable-http", "sse"}

\* "^https?://[^\\s]+$" matched from the first character on: the sets are
\* the positions reached after "http", after the optional "s" and after
\* "://"; the rest must be one or more characters outside \s, up to the end
url_pattern_unanchored_end(s) ==
    LET http == IF IsPrefix(<<"h", "t", "t", "p">>, s) THEN {4} ELSE {}
        https == http \cup {i + 1 : i \in {j \in http :
                                  j < Len(s) /\ s[j + 1] = "s"}}
        scheme == {i + 3 : i \in {j \in https :
                           /\ j + 3 <= Len(s)
                           /\ SubSeq(s, j + 1, j + 3) = <<":", "/", "/">>}}
    IN  \E i \in scheme : i < Len(s) /\ s[i + 1] \notin Whitespace

url_pattern(s) ==
    LET http == IF IsPrefix(<<"h", "t", "t", "p">>, s) THEN {4} ELSE {}
        https == http \cup {i + 1 : i \in {j \in http :
                                  j < Len(s) /\ s[j + 1] = "s"}}
        scheme == {i + 3 : i \in {j \in https :
                           /\ j + 3 <= Len(s)
                           /\ SubSeq(s, j + 1, j + 3) = <<":", "/", "/">>}}
    IN  \E i \in scheme :
            /\ i < Len(s)
            /\ \A k \in (i + 1)..Len(s) : s[k] \notin Whitespace

\* StreamableHttpTransport and SseTransport: url carries the pattern
schema_validate(r) ==
    CASE r.type = "streamable-http" -> url_pattern(r.url)
      [] r.type = "sse" -> url_pattern(r.url)

InitPattern ==
    /\ remote \in [type : RemoteTypes, url : Urls]
    /\ ppc = "validate"
    /\ accepted = FALSE
    /\ PipeIdle /\ ArrayIdle /\ MigIdle /\ OciIdle
    /\ DbIdle /\ LoginIdle /\ CorsIdle

\* err = schema.Validate(jsonData)
SchemaValidate ==
    /\ ppc = "validate"
    /\ accepted' = schema_validate(remote)
    /\ ppc' = "validated"
    /\ UNCHANGED remote
    /\ UNCHANGED <<pipeVars, arrayVars, migVars, ociVars>>
    /\ UNCHANGED <<dbVars, loginVars, corsVars>>

NextPattern == SchemaValidate

SpecPattern == InitPattern /\ [][NextPattern]_vars

StartsWithScheme(s) ==
    \E p \in {HttpScheme, HttpsScheme} : IsPrefix(p, s) /\ Len(s) > Len(p)

NoWhitespace(s) == \A i \in 1..Len(s) : s[i] \notin Whitespace

\* C25: for both transport types the schema accepts a url exactly when it
\* begins with http:// or https://, has at least one character after that,
\* and contains no whitespace.
C25_UrlPattern ==
    (ppc = "validated") =>
        (accepted <=> (StartsWithScheme(remote.url) /\ NoWhitespace(remote.url)))

C25_Witness ==
    /\ ppc = "validated"
    /\ remote.type = "sse"
    /\ remote.url = HttpsScheme \o <<"{", "a", "}">>
    /\ accepted

-----------------------------------------------------------------------------
(* DatabaseConfig.Validate (internal/config/validation.go): one call on    *)
(* one configuration.                                                      *)

\* Largest connection count of a configuration
MaxConn == 2

\* validTypes
DatabaseTypes == {"postgres", "sqlserver", "mysql", "sqlite", "dynamodb"}

\* validSSLModes
SSLModes == {"", "disable", "require", "prefer", "verify-ca", "verify-full"}

DatabaseConfigs ==
    [Type : DatabaseTypes \cup {"mongodb", "", "Postgres"},
     URL : {"", "postgres://localhost:5432/test"},
     MaxConnections : (-2)..MaxConn,
     MinConnections : (-2)..MaxConn,
     Region : {"", "us-east-1"},
     TableName : {"", "test-table"},
     SSLMode : SSLModes \cup {"allow", "REQUIRE"}]

\* lines 47-107
database_validate_requires_url_always(c) ==
    IF c.Type \notin DatabaseTypes THEN "unsupported database type"
    ELSE IF c.URL = "" THEN "database URL is required"
    ELSE IF c.MaxConnections < c.MinConnections
    THEN "max connections must be >= min connections"
    ELSE IF c.MinConnections < 0 THEN "min connections must be non-negative"
    ELSE IF c.MaxConnections < 1 THEN "max connections must be at least 1"
    ELSE IF c.Type = "dynamodb" /\ c.Region = ""
    THEN "database region is required for DynamoDB"
    ELSE IF c.Type = "dynamodb" /\ c.TableName = ""
    THEN "database table name is required for DynamoDB"
    ELSE IF c.Type \in {"postgres", "mysql"} /\ c.SSLMode \notin SSLModes
    THEN "invalid SSL mode"
    ELSE "nil"

database_validate(c) ==
    IF c.Type \notin DatabaseTypes THEN "unsupported database type"
    ELSE IF c.Type # "dynamodb" /\ c.URL = "" THEN "database URL is required"
    ELSE IF c.MaxConnections < c.MinConnections
    THEN "max connections must be >= min connections"
    ELSE IF c.MinConnections < 0 THEN "min connections must be non-negative"
    ELSE IF c.MaxConnections < 1 THEN "max connections must be at least 1"
    ELSE IF c.Type = "dynamodb" /\ c.Region = ""
    THEN "database region is required for DynamoDB"
    ELSE IF c.Type = "dynamodb" /\ c.TableName = ""
    THEN "database table name is required for DynamoDB"
    ELSE IF c.Type \in {"postgres", "mysql"} /\ c.SSLMode \notin SSLModes
    THEN "invalid SSL mode"
    ELSE "nil"

InitDatabase ==
    /\ dc \in DatabaseConfigs
    /\ dpc = "call"
    /\ derr = "nil"
    /\ PipeIdle /\ ArrayIdle /\ MigIdle /\ OciIdle
    /\ PatIdle /\ LoginIdle /\ CorsIdle

\* err := cfg.Validate()
DatabaseValidate ==
    /\ dpc = "call"
    /\ derr' = database_validate(dc)
    /\ dpc' = "returned"
    /\ UNCHANGED dc
    /\ UNCHANGED <<pipeVars, arrayVars, migVars, ociVars>>
    /\ UNCHANGED <<patVars, loginVars, corsVars>>

NextDatabase == DatabaseValidate

SpecDatabase == InitDatabase /\ [][NextDatabase]_vars

TypeOk(c) ==
    c.Type \in {"postgres", "sqlserver", "mysql", "sqlite", "dynamodb"}

UrlOk(c) == c.URL # "" \/ c.Type = "dynamodb"

PoolOk(c) ==
    /\ 0 <= c.MinConnections
    /\ c.MinConnections <= c.MaxConnections
    /\ c.MaxConnections >= 1

DynamoOk(c) == c.Type = "dynamodb" => (c.Region # "" /\ c.TableName # "")

SslOk(c) ==
    c.Type \in {"postgres", "mysql"} =>
        c.SSLMode \in {"", "disable", "require", "prefer", "verify-ca",
                       "verify-full"}

\* C26: Validate returns nil exactly when the type, the URL, the connection
\* counts, the DynamoDB settings and the SSL mode are all acceptable, and
\* otherwise an error of the first of these five checks that fails.
C26_DatabaseValidate ==
    (dpc = "returned") =>
        /\ (derr = "nil") <=>
               (TypeOk(dc) /\ UrlOk(dc) /\ PoolOk(dc) /\ DynamoOk(dc) /\ SslOk(dc))
        /\ derr \in
               IF ~TypeOk(dc) THEN {"unsupported database type"}
               ELSE IF ~UrlOk(dc) THEN {"database URL is required"}
               ELSE IF ~PoolOk(dc)
               THEN {"max connections must be >= min connections",
                     "min connections must be non-negative",
                     "max connections must be at least 1"}
               ELSE IF ~DynamoOk(dc)
               THEN {"database region is required for DynamoDB",
                     "database table name is required for DynamoDB"}
               ELSE IF ~SslOk(dc) THEN {"invalid SSL mode"}
               ELSE {"nil"}

C26_Witness ==
    /\ dpc = "returned"
    /\ dc.Type = "dynamodb" /\ dc.URL = ""
    /\ dc.MinConnections = 1 /\ dc.MaxConnections = 2
    /\ dc.Region # "" /\ dc.TableName # ""
    /\ dc.SSLMode = "allow"
    /\ derr = "nil"

-----------------------------------------------------------------------------
(* "mcp-publisher login" (cmd/publisher/commands/login.go): LoginCommand   *)
(* and performLogin, with the auth provider, the home directory lookup and *)
(* the file system answering one way or the other.                         *)

DefaultRegistryURL == "https://registry.modelcontextprotocol.io"

Methods == {"github", "github-oidc", "dns", "http", "none"}

\* the command line: args[0] if any, and the values of the flags
CommandLines ==
    { a \in [args : {<<>>} \cup {<<m>> : m \in Methods \cup {"bogus"}},
             registry : {DefaultRegistryURL, "https://registry.example.com"},
             domain : {"", "example.com"},
             privateKey : {"", "0123abcd"}] :
        \* --domain and --private-key exist for dns and http only (lines 79-83)
        (a.args = <<>> \/ a.args[1] \notin {"dns", "http"}) =>
            (a.domain = "" /\ a.privateKey = "") }

Tokens == {"token-1", "token-2"}

\* the content of the token file: none, or the JSON object written
NoFile == [exists |-> FALSE, token |-> "", method |-> "", registry |-> ""]

\* tokenData (lines 136-140), marshalled
token_data(tok, method, registry) ==
    [exists |-> TRUE, token |-> tok, method |-> method, registry |-> registry]

OldFile == token_data("old-token", "github", DefaultRegistryURL)

\* a file that os.WriteFile truncated and then failed to write
EmptyFile == [exists |-> TRUE, token |-> "", method |-> "", registry |-> ""]

Call(name, ok) == [call |-> name, ok |-> ok]

\* LoginCommand, lines 49-62: the error before performLogin, "nil" for none
login_command(a) ==
    IF Len(a.args) < 1 THEN "authentication method required"
    ELSE IF a.args[1] \in {"dns", "http"}
               /\ (a.domain = "" \/ a.privateKey = "")
    THEN "authentication requires --domain and --private-key"
    ELSE IF a.args[1] \notin Methods THEN "unknown authentication method"
    ELSE "nil"

\* lines 119-121: where performLogin goes after authProvider.Login
after_login_ignores_error(ok) == "get_token"

after_login(ok) == IF ok THEN "get_token" ELSE "returned"

\* lines 124-127: where performLogin goes after authProvider.GetToken
after_get_token(ok) == IF ok THEN "home_dir" ELSE "returned"

InitLogin ==
    /\ largs \in CommandLines
    /\ lpc = "command"
    /\ lerr = "nil"
    /\ calls = <<>>
    /\ token = ""
    /\ token_file \in {NoFile, OldFile}
    /\ PipeIdle /\ ArrayIdle /\ MigIdle /\ OciIdle
    /\ PatIdle /\ DbIdle /\ CorsIdle

\* lines 48-64
LoginCommand ==
    /\ lpc = "command"
    /\ lerr' = login_command(largs)
    /\ lpc' = IF login_command(largs) = "nil" THEN "login" ELSE "returned"
    /\ UNCHANGED <<largs, calls, token, token_file>>
    /\ UNCHANGED <<pipeVars, arrayVars, migVars, ociVars>>
    /\ UNCHANGED <<patVars, dbVars, corsVars>>

\* lines 119-121
Login ==
    /\ lpc = "login"
    /\ \E ok \in BOOLEAN :
          /\ calls' = Append(calls, Call("Login", ok))
          /\ lpc' = after_login(ok)
          /\ lerr' = IF ok THEN lerr ELSE "login failed"
    /\ UNCHANGED <<largs, token, token_file>>
    /\ UNCHANGED <<pipeVars, arrayVars, migVars, ociVars>>
    /\ UNCHANGED <<patVars, dbVars, corsVars>>

\* lines 124-127
GetToken ==
    /\ lpc = "get_token"
    /\ \E ok \in BOOLEAN :
          /\ calls' = Append(calls, Call("GetToken", ok))
          /\ token' \in IF ok THEN Tokens ELSE {""}
          /\ lpc' = after_get_token(ok)
          /\ lerr' = IF ok THEN lerr ELSE "failed to get token"
    /\ UNCHANGED <<largs, token_file>>
    /\ UNCHANGED <<pipeVars, arrayVars, migVars, ociVars>>
    /\ UNCHANGED <<patVars, dbVars, corsVars>>

\* lines 130-133
UserHomeDir ==
    /\ lpc = "home_dir"
    /\ \E ok \in BOOLEAN :
          /\ lpc' = IF ok THEN "write" ELSE "returned"
          /\ lerr' = IF ok THEN lerr ELSE "failed to get home directory"
    /\ UNCHANGED <<largs, calls, token, token_file>>
    /\ UNCHANGED <<pipeVars, arrayVars, migVars, ociVars>>
    /\ UNCHANGED <<patVars, dbVars, corsVars>>

\* lines 135-152: json.Marshal of a map[string]string does not fail
WriteFile ==
    /\ lpc = "write"
    /\ \E ok \in BOOLEAN :
          /\ calls' = Append(calls, Call("WriteFile", ok))
          /\ token_file' \in
                IF ok
                THEN {token_data(token, largs.args[1], largs.registry)}
                ELSE {token_file, EmptyFile}
          /\ lerr' = IF ok THEN lerr ELSE "failed to save token"
    /\ lpc' = "returned"
    /\ UNCHANGED <<largs, token>>
    /\ UNCHANGED <<pipeVars, arrayVars, migVars, ociVars>>
    /\ UNCHANGED <<patVars, dbVars, corsVars>>

NextLogin ==
    \/ LoginCommand
    \/ Login
    \/ GetToken
    \/ UserHomeDir
    \/ WriteFile

SpecLogin == InitLogin /\ [][NextLogin]_vars

LoginOk == Call("Login", TRUE)

GetTokenOk == Call("GetToken", TRUE)

\* C29: GetToken is called only after a successful Login, the token file is
\* written only after both have succeeded and changes at no other moment, a
\* failure of either returns an error, and after a run without error the file
\* holds the token, the method and the registry URL of that run.
C29_TokenFileAfterLoginAndToken ==
    /\ [](/\ \A i \in DOMAIN calls :
                /\ calls[i].call = "GetToken" => (i = 2 /\ calls[1] = LoginOk)
                /\ calls[i].call = "WriteFile" =>
                       (i = 3 /\ calls[1] = LoginOk /\ calls[2] = GetTokenOk)
          /\ (lpc = "returned" /\ \E i \in DOMAIN calls : ~calls[i].ok) =>
                 lerr # "nil"
          /\ (lpc = "returned" /\ lerr = "nil") =>
                 /\ token \in Tokens
                 /\ token_file = [exists |-> TRUE, token |-> token,
                                  method |-> largs.args[1],
                                  registry |-> largs.registry])
    /\ [][token_file' # token_file =>
              (lpc = "write" /\ calls = <<LoginOk, GetTokenOk>>)]_vars

C29_Witness ==
    /\ lpc = "returned" /\ lerr = "nil"
    /\ largs.args = <<"dns">>
    /\ largs.registry = "https://registry.example.com"
    /\ calls = <<LoginOk, GetTokenOk, Call("WriteFile", TRUE)>>
    /\ token_file = [exists |-> TRUE, token |-> "token-1", method |-> "dns",
                     registry |-> "https://registry.example.com"]

-----------------------------------------------------------------------------
(* CORSMiddleware (internal/api/cors.go): one request through the handler  *)
(* it returns, and the next handler answering it.                          *)

StatusNoContent == 204

\* the status codes the next handler answers with
NextStatuses == {200, 404}

RequestMethods ==
    {"GET", "POST", "PUT", "DELETE", "OPTIONS", "HEAD", "PATCH", "options"}

CorsConfigs ==
    [CORSEnabled : BOOLEAN,
     CORSAllowedOrigin : {"*", "https://app.example.com", ""}]

\* w.Header().Set(key, value) for every key of h
SetAll(hs, h) ==
    [k \in DOMAIN hs \cup DOMAIN h |-> IF k \in DOMAIN h THEN h[k] ELSE hs[k]]

Header(key, value) == [k \in {key} |-> value]

\* lines 20-24
cors_headers_without_max_age(c) ==
    SetAll(SetAll(SetAll(
        Header("Access-Control-Allow-Origin", c.CORSAllowedOrigin),
        Header("Access-Control-Allow-Methods", "GET, POST, PUT, DELETE, OPTIONS")),
        Header("Access-Control-Allow-Headers", "Content-Type, Authorization, Accept")),
        Header("Access-Control-Expose-Headers", "Content-Type, Content-Length"))

cors_headers(c) ==
    SetAll(SetAll(SetAll(SetAll(
        Header("Access-Control-Allow-Origin", c.CORSAllowedOrigin),
        Header("Access-Control-Allow-Methods", "GET, POST, PUT, DELETE, OPTIONS")),
        Header("Access-Control-Allow-Headers", "Content-Type, Authorization, Accept")),
        Header("Access-Control-Expose-Headers", "Content-Type, Content-Length")),
        Header("Access-Control-Max-Age", "86400"))

\* line 27: r.Method == http.MethodOptions
is_preflight(method) == method = "OPTIONS"

InitCors ==
    /\ cfg \in CorsConfigs
    /\ req \in RequestMethods
    /\ cpc = "handler"
    /\ headers = <<>>
    /\ code = 0
    /\ next_calls = 0
    /\ PipeIdle /\ ArrayIdle /\ MigIdle /\ OciIdle
    /\ PatIdle /\ DbIdle /\ LoginIdle

\* lines 14-17
SkipCors ==
    /\ cpc = "handler"
    /\ ~cfg.CORSEnabled
    /\ next_calls' = next_calls + 1
    /\ cpc' = "next"
    /\ UNCHANGED <<cfg, req, headers, code>>
    /\ UNCHANGED <<pipeVars, arrayVars, migVars, ociVars>>
    /\ UNCHANGED <<patVars, dbVars, loginVars>>

\* lines 20-24
SetCorsHeaders ==
    /\ cpc = "handler"
    /\ cfg.CORSEnabled
    /\ headers' = SetAll(headers, cors_headers(cfg))
    /\ cpc' = "method"
    /\ UNCHANGED <<cfg, req, code, next_calls>>
    /\ UNCHANGED <<pipeVars, arrayVars, migVars, ociVars>>
    /\ UNCHANGED <<patVars, dbVars, loginVars>>

\* lines 27-30
Preflight ==
    /\ cpc = "method"
    /\ is_preflight(req)
    /\ code' = StatusNoContent
    /\ cpc' = "done"
    /\ UNCHANGED <<cfg, req, headers, next_calls>>
    /\ UNCHANGED <<pipeVars, arrayVars, migVars, ociVars>>
    /\ UNCHANGED <<patVars, dbVars, loginVars>>

\* line 33
CallNext ==
    /\ cpc = "method"
    /\ ~is_preflight(req)
    /\ next_calls' = next_calls + 1
    /\ cpc' = "next"
    /\ UNCHANGED <<cfg, req, headers, code>>
    /\ UNCHANGED <<pipeVars, arrayVars, migVars, ociVars>>
    /\ UNCHANGED <<patVars, dbVars, loginVars>>

\* next.ServeHTTP(w, r): the next handler writes its own header and a status
NextServeHTTP ==
    /\ cpc = "next"
    /\ headers' = SetAll(headers, Header("Content-Type", "application/json"))
    /\ code' \in NextStatuses
    /\ cpc' = "done"
    /\ UNCHANGED <<cfg, req, next_calls>>
    /\ UNCHANGED <<pipeVars, arrayVars, migVars, ociVars>>
    /\ UNCHANGED <<patVars, dbVars, loginVars>>

NextCors ==
    \/ SkipCors
    \/ SetCorsHeaders
    \/ Preflight
    \/ CallNext
    \/ NextServeHTTP

SpecCors == InitCors /\ [][NextCors]_vars

CorsHeaderNames ==
    {"Access-Control-Allow-Origin", "Access-Control-Allow-Methods",
     "Access-Control-Allow-Headers", "Access-Control-Expose-Headers",
     "Access-Control-Max-Age"}

\* C30: with CORS disabled the request reaches the next handler once and the
\* response carries no CORS header; with CORS enabled the response carries
\* the five CORS headers, an OPTIONS request is answered 204 without the next
\* handler, and any other request reaches the next handler exactly once.
C30_CorsMiddleware ==
    /\ next_calls <= 1
    /\ (cpc = "done" /\ ~cfg.CORSEnabled) =>
          /\ next_calls = 1
          /\ DOMAIN headers \cap CorsHeaderNames = {}
    /\ (cpc \in {"method", "next", "done"} /\ cfg.CORSEnabled) =>
          /\ CorsHeaderNames \subseteq DOMAIN headers
          /\ headers["Access-Control-Allow-Origin"] = cfg.CORSAllowedOrigin
    /\ (cpc = "done" /\ cfg.CORSEnabled) =>
          IF req = "OPTIONS"
          THEN code = 204 /\ next_calls = 0
          ELSE next_calls = 1 /\ code # 0

C30_Witness ==
    /\ cpc = "done"
    /\ cfg.CORSEnabled /\ cfg.CORSAllowedOrigin = "https://app.example.com"
    /\ req = "OPTIONS"
    /\ code = 204 /\ next_calls = 0
    /\ DOMAIN headers = CorsHeaderNames

====
